---- MODULE Spec2Model ----
(***************************************************************************)
(* kazel generator (src/kazel/generator.go): extraction of "+k8s:" codegen *)
(* tags from go sources, the walk that gathers them per package, the       *)
(* flattening of the gathered index and the generation of the bzl file.    *)
(*                                                                         *)
(* Strings and byte slices are sequences of one-character strings, so that *)
(* suffix tests, regular-expression matching, splitting and byte-order     *)
(* sorting are computed on the characters as the code computes them.       *)
(***************************************************************************)
EXTENDS Integers, Sequences, FiniteSets, TLC

VARIABLES
    fs,             \* the source tree: [dirs, files, content]
    target,         \* contents of the file at cfg.K8sCodegenBzlFile, or Absent
    cfg,            \* Vendorer.cfg
    skippedK8sCodegenPaths, \* Vendorer.skippedK8sCodegenPaths
    readDirFirst,   \* which filepath.Walk the binary was built with
    dryRun,         \* Vendorer.dryRun of the current invocation
    pc,             \* position of the invocation
    stack,          \* filepath.Walk's pending entries, one frame per open directory
    requestedTags,  \* walkGenerated's requestedTags
    tagsValuesPkgs, \* findGeneratorTags' tagsValuesPkgs
    walkErr,        \* findGeneratorTags' walkErr
    visited,        \* log: paths handed to the walk function, in order
    reads,          \* log: paths handed to ioutil.ReadFile, in order
    enumerated,     \* log: directories whose entries were listed
    failures,       \* log: the failures the operating system reported to the walk
    found,          \* walkGenerated's tagsValuesPkgs, err := findGeneratorTags(...)
    call,           \* log: what this invocation did after the walk
    targetBefore,   \* log: target when the invocation started
    runsLeft,       \* invocations still to come
    result,         \* what walkGenerated returned: [changed, err]
    history,        \* one record per finished invocation
    xb,             \* extractTags' b
    xreq,           \* extractTags' requestedTags
    xtags           \* extractTags' result

vars == <<fs, target, cfg, skippedK8sCodegenPaths, readDirFirst, dryRun, pc,
          stack, requestedTags, tagsValuesPkgs, walkErr, visited, reads,
          enumerated, failures, found, call, targetBefore, runsLeft, result,
          history, xb, xreq, xtags>>

walkVars == <<fs, target, cfg, skippedK8sCodegenPaths, readDirFirst, dryRun,
              stack, requestedTags, tagsValuesPkgs, walkErr, visited, reads,
              enumerated, failures, found, call, targetBefore, runsLeft, result,
              history>>

(***************************************************************************)
(* Bounds                                                                  *)
(***************************************************************************)
\* most pieces of text a file content of the extraction runs is made of
MaxPieces == 3
\* most invocations of walkGenerated in one behaviour
MaxRuns == 2
\* most skip patterns configured at once
MaxSkip == 1

\* error values: nil, filepath.SkipDir, and the failures of the operating system
NoErr == [op |-> "nil", path |-> <<>>]
SkipDir == [op |-> "SkipDir", path |-> <<>>]
Failure(op, path) == [op |-> op, path |-> path]

(***************************************************************************)
(* Strings                                                                 *)
(***************************************************************************)
\* byte value of a character (the order sort.Strings compares by)
Code(c) ==
    CASE c = "\t" -> 9  [] c = "\n" -> 10 [] c = " " -> 32 [] c = "+" -> 43
      [] c = "," -> 44 [] c = "-" -> 45 [] c = "." -> 46 [] c = "/" -> 47
      [] c = "8" -> 56 [] c = ":" -> 58 [] c = "=" -> 61 [] c = "_" -> 95
      [] c = "a" -> 97 [] c = "b" -> 98 [] c = "c" -> 99 [] c = "d" -> 100
      [] c = "e" -> 101 [] c = "g" -> 103 [] c = "k" -> 107 [] c = "o" -> 111
      [] c = "s" -> 115 [] c = "t" -> 116 [] c = "u" -> 117 [] c = "x" -> 120
      [] c = "y" -> 121 [] c = "z" -> 122

\* s < t in byte order
RECURSIVE StrLess(_, _)
StrLess(s, t) ==
    IF t = <<>> THEN FALSE
    ELSE IF s = <<>> THEN TRUE
    ELSE IF Head(s) = Head(t) THEN StrLess(Tail(s), Tail(t))
    ELSE Code(Head(s)) < Code(Head(t))

\* lit occurs in s at index i
HasPrefixAt(s, i, lit) ==
    /\ i >= 1
    /\ i + Len(lit) - 1 <= Len(s)
    /\ SubSeq(s, i, i + Len(lit) - 1) = lit

\* strings.HasSuffix
HasSuffix(s, suffix) == HasPrefixAt(s, Len(s) - Len(suffix) + 1, suffix)

\* strings.Contains
Contains(s, lit) == \E i \in 1..(Len(s) + 1) : HasPrefixAt(s, i, lit)

\* the character class \s of the regexp package
IsSpace(c) == c \in {"\t", "\n", " "}

GoSuffix == <<".", "g", "o">>
TestSuffix == <<"_", "t", "e", "s", "t", ".", "g", "o">>

(***************************************************************************)
(* genTagRe and extractTags                                                *)
(***************************************************************************)
Slashes == <<"/", "/">>
K8sPrefix == <<"+", "k", "8", "s", ":">>
NoMatch == [end |-> 0]

\* first index >= i of b that holds no white space (Len(b) + 1 if none)
RECURSIVE SkipSpace(_, _)
SkipSpace(b, i) ==
    IF i > Len(b) \/ ~IsSpace(b[i]) THEN i ELSE SkipSpace(b, i + 1)

\* first index >= i of b that holds white space or, when stopEq, "="
RECURSIVE RunEnd(_, _, _)
RunEnd(b, i, stopEq) ==
    IF i > Len(b) \/ IsSpace(b[i]) \/ (stopEq /\ b[i] = "=") THEN i
    ELSE RunEnd(b, i + 1, stopEq)

\* last index in from..(to-1) of b that holds a newline, 0 if none
RECURSIVE LastNewline(_, _, _)
LastNewline(b, from, to) ==
    IF to <= from THEN 0
    ELSE IF b[to - 1] = "\n" THEN to - 1
    ELSE LastNewline(b, from, to - 1)

\* the match of genTagRe that starts at index i of b, with its two groups:
\* //  \s*  \+k8s:  ([^\s=]+)  =  (\S+)  \s*  \n
genTagReAt(b, i) ==
    IF ~HasPrefixAt(b, i, Slashes) THEN NoMatch
    ELSE LET j == SkipSpace(b, i + 2) IN
    IF ~HasPrefixAt(b, j, K8sPrefix) THEN NoMatch
    ELSE LET n0 == j + Len(K8sPrefix)
             n1 == RunEnd(b, n0, TRUE) IN
    IF n1 = n0 \/ n1 > Len(b) \/ b[n1] # "=" THEN NoMatch
    ELSE LET v0 == n1 + 1
             v1 == RunEnd(b, v0, FALSE) IN
    IF v1 = v0 \/ v1 > Len(b) THEN NoMatch
    ELSE LET nl == LastNewline(b, v1, SkipSpace(b, v1)) IN
    IF nl = 0 THEN NoMatch
    ELSE [end |-> nl + 1, start |-> i,
          tag |-> SubSeq(b, n0, n1 - 1), values |-> SubSeq(b, v0, v1 - 1)]

\* genTagRe.FindAllSubmatch(b, -1) from index i on: leftmost matches, none
\* overlapping
RECURSIVE FindAllFrom(_, _)
FindAllFrom(b, i) ==
    IF i > Len(b) THEN <<>>
    ELSE LET m == genTagReAt(b, i) IN
         IF m.end = 0 THEN FindAllFrom(b, i + 1)
         ELSE <<m>> \o FindAllFrom(b, m.end)

FindAllSubmatch(b) == FindAllFrom(b, 1)

\* strings.Split(s, ",")
RECURSIVE Split(_)
Split(s) ==
    LET i == CHOOSE k \in 1..(Len(s) + 1) :
                 /\ k = Len(s) + 1 \/ s[k] = ","
                 /\ \A h \in 1..(k - 1) : s[h] # ","
    IN IF i = Len(s) + 1 THEN <<s>>
       ELSE <<SubSeq(s, 1, i - 1)>> \o Split(SubSeq(s, i + 1, Len(s)))

EmptyMap == [k \in {} |-> {}]

\* m with m[k] = v
MapPut(m, k, v) == [x \in DOMAIN m \cup {k} |-> IF x = k THEN v ELSE m[x]]

\* m[k], the zero value when k is no key
MapGet(m, k, zero) == IF k \in DOMAIN m THEN m[k] ELSE zero

\* the loop of extractTags over the matches ms
RECURSIVE extractLoop(_, _, _)
extractLoop(ms, requested, tags) ==
    IF ms = <<>> THEN tags
    ELSE LET m == Head(ms) IN
         IF m.tag \notin requested
         THEN extractLoop(Tail(ms), requested, tags)
         ELSE extractLoop(Tail(ms), requested,
                  MapPut(tags, m.tag, MapGet(tags, m.tag, <<>>) \o Split(m.values)))

\* the loop of extractTags, assigning where the code appends
RECURSIVE extractLoopAssign(_, _, _)
extractLoopAssign(ms, requested, tags) ==
    IF ms = <<>> THEN tags
    ELSE LET m == Head(ms) IN
         IF m.tag \notin requested
         THEN extractLoopAssign(Tail(ms), requested, tags)
         ELSE extractLoopAssign(Tail(ms), requested,
                  MapPut(tags, m.tag, Split(m.values)))

extractTagsAssign(b, requested) ==
    extractLoopAssign(FindAllSubmatch(b), requested, EmptyMap)

extractTags(b, requested) == extractLoop(FindAllSubmatch(b), requested, EmptyMap)

(***************************************************************************)
(* Paths, the source tree and the skip patterns                            *)
(***************************************************************************)
\* the root findGeneratorTags is called with
Root == <<".">>
Sep == <<"/">>

\* last index of s that holds "/", 0 if none
RECURSIVE LastSep(_, _)
LastSep(s, i) ==
    IF i = 0 THEN 0 ELSE IF s[i] = "/" THEN i ELSE LastSep(s, i - 1)

\* filepath.Dir, on the relative clean paths filepath.Walk produces from "."
Dir(path) ==
    LET i == LastSep(path, Len(path)) IN
    IF i = 0 THEN Root ELSE SubSeq(path, 1, i - 1)

\* the last element of path
Base(path) == SubSeq(path, LastSep(path, Len(path)) + 1, Len(path))

\* filepath.Join(dir, name)
Join(dir, name) == IF dir = Root THEN name ELSE dir \o Sep \o name

\* insertion of s into the sorted sequence
RECURSIVE Insert(_, _)
Insert(sorted, s) ==
    IF sorted = <<>> THEN <<s>>
    ELSE IF StrLess(s, Head(sorted)) THEN <<s>> \o sorted
    ELSE <<Head(sorted)>> \o Insert(Tail(sorted), s)

\* sort.Strings
RECURSIVE SortStrings(_)
SortStrings(seq) ==
    IF seq = <<>> THEN <<>> ELSE Insert(SortStrings(Tail(seq)), Head(seq))

\* the elements of the set S in some order
RECURSIVE SetToSeq(_)
SetToSeq(S) ==
    IF S = {} THEN <<>>
    ELSE LET x == CHOOSE y \in S : TRUE IN <<x>> \o SetToSeq(S \ {x})

\* the entries of directory d, as readDirNames returns them: names, sorted
readDirNames(d) ==
    SortStrings(SetToSeq({Base(p) : p \in {q \in (fs.dirs \cup fs.files) \ {Root} : Dir(q) = d}}))

\* regexp.MatchString, for the patterns lit and ^lit$ of a literal
MatchString(r, s) == IF r.anchored THEN s = r.lit ELSE Contains(s, r.lit)

(***************************************************************************)
(* findGeneratorTags                                                       *)
(***************************************************************************)
\* lines 67-71, never returning filepath.SkipDir
isSkippedNever(pkg) == FALSE

\* lines 67-71: some skipped codegen path matches pkg
isSkipped(pkg) ==
    \E i \in DOMAIN skippedK8sCodegenPaths :
        MatchString(skippedK8sCodegenPaths[i], pkg)

\* line 73: path is a go source that is no test
isSource(path) == HasSuffix(path, GoSuffix) /\ ~HasSuffix(path, TestSuffix)

\* ioutil.ReadFile(path): fails on a directory, and when the system says so
readFileErr(path, readOk) ==
    IF path \in fs.dirs \/ ~readOk THEN Failure("read", path) ELSE NoErr

\* lines 82-93: pkg added under every value of every tag of tags
mergeTags(idx, tags, pkg) ==
    [tag \in DOMAIN idx \cup DOMAIN tags |->
        LET old == MapGet(idx, tag, EmptyMap)
            vals == IF tag \in DOMAIN tags
                    THEN {tags[tag][i] : i \in DOMAIN tags[tag]} ELSE {}
        IN [v \in DOMAIN old \cup vals |->
               MapGet(old, v, {}) \cup (IF v \in vals THEN {pkg} ELSE {})]]

\* the walk function with a failed read taken for an empty file
walkFnReadIgnored(path, err, readOk) ==
    IF err # NoErr THEN [ret |-> err, read |-> FALSE, idx |-> tagsValuesPkgs]
    ELSE IF isSkipped(Dir(path))
         THEN [ret |-> SkipDir, read |-> FALSE, idx |-> tagsValuesPkgs]
    ELSE IF ~isSource(path)
         THEN [ret |-> NoErr, read |-> FALSE, idx |-> tagsValuesPkgs]
    ELSE IF readFileErr(path, readOk) # NoErr
         THEN [ret |-> NoErr, read |-> TRUE, idx |-> tagsValuesPkgs]
    ELSE [ret |-> NoErr, read |-> TRUE,
          idx |-> mergeTags(tagsValuesPkgs,
                            extractTags(fs.content[path], requestedTags), Dir(path))]

\* the walk function, lines 61-96: what it returns, whether it read the file,
\* and tagsValuesPkgs after it
walkFn(path, err, readOk) ==
    IF err # NoErr THEN [ret |-> err, read |-> FALSE, idx |-> tagsValuesPkgs]
    ELSE IF isSkipped(Dir(path))
         THEN [ret |-> SkipDir, read |-> FALSE, idx |-> tagsValuesPkgs]
    ELSE IF ~isSource(path)
         THEN [ret |-> NoErr, read |-> FALSE, idx |-> tagsValuesPkgs]
    ELSE IF readFileErr(path, readOk) # NoErr
         THEN [ret |-> readFileErr(path, readOk), read |-> TRUE, idx |-> tagsValuesPkgs]
    ELSE [ret |-> NoErr, read |-> TRUE,
          idx |-> mergeTags(tagsValuesPkgs,
                            extractTags(fs.content[path], requestedTags), Dir(path))]

\* the failure of ioutil.ReadFile in the call of the walk function that gave r
readFailure(path, r, readOk) ==
    IF r.read /\ readFileErr(path, readOk) # NoErr
    THEN <<readFileErr(path, readOk)>> ELSE <<>>

\* filepath.Walk's step on one entry: lstat, the listing of a directory and
\* the calls of the walk function, in the order of the library version
walkEntry(path, lstatOk, openOk) ==
    LET isDir == path \in fs.dirs
        dirErr == IF openOk THEN NoErr ELSE Failure("readdir", path)
    IN
    IF ~lstatOk
    THEN [fn |-> walkFn(path, Failure("lstat", path), openOk),
          calls |-> <<path>>, listed |-> {}, descend |-> FALSE,
          failed |-> <<Failure("lstat", path)>>]
    ELSE IF ~isDir
    THEN LET r == walkFn(path, NoErr, openOk) IN
         [fn |-> r, calls |-> <<path>>, listed |-> {}, descend |-> FALSE,
          failed |-> readFailure(path, r, openOk)]
    ELSE IF readDirFirst
    THEN LET r == walkFn(path, dirErr, openOk) IN
         [fn |-> r, calls |-> <<path>>, listed |-> {path},
          descend |-> (r.ret = NoErr),
          failed |-> IF openOk THEN readFailure(path, r, openOk) ELSE <<dirErr>>]
    ELSE LET r == walkFn(path, NoErr, openOk) IN
         IF r.ret # NoErr
         THEN [fn |-> r, calls |-> <<path>>, listed |-> {}, descend |-> FALSE,
               failed |-> readFailure(path, r, openOk)]
         ELSE IF dirErr # NoErr
         THEN [fn |-> walkFn(path, dirErr, openOk), calls |-> <<path, path>>,
               listed |-> {path}, descend |-> FALSE,
               failed |-> readFailure(path, r, openOk) \o <<dirErr>>]
         ELSE [fn |-> r, calls |-> <<path>>, listed |-> {path}, descend |-> TRUE,
               failed |-> readFailure(path, r, openOk)]

\* the frames with the finished directories left
RECURSIVE dropDone(_)
dropDone(frames) ==
    IF frames # <<>> /\ Head(frames) = <<>> THEN dropDone(Tail(frames)) ELSE frames

\* the pending entries after the entry at the head of the top frame returned
\* ret: a directory is entered, filepath.SkipDir from a directory skips it and
\* from a file skips the rest of its directory
afterEntry(path, step) ==
    LET rest == Tail(Head(stack))
        outer == Tail(stack)
        names == readDirNames(path)
        entries == [i \in DOMAIN names |-> Join(path, names[i])]
    IN
    IF step.fn.ret = SkipDir
    THEN IF path \in fs.dirs THEN dropDone(<<rest>> \o outer) ELSE dropDone(outer)
    ELSE IF step.fn.ret # NoErr THEN <<>>
    ELSE IF step.descend THEN dropDone(<<entries, rest>> \o outer)
    ELSE dropDone(<<rest>> \o outer)

(***************************************************************************)
(* flattened and the generated file                                        *)
(***************************************************************************)
\* the orders a range over the set S may take
Orders(S) ==
    {o \in [1..Cardinality(S) -> S] : \A i, j \in DOMAIN o : i # j => o[i] # o[j]}

\* the packages of the index m
PkgsOf(m) == UNION {UNION {m[t][v] : v \in DOMAIN m[t]} : t \in DOMAIN m}

\* the elements of S as a range over it yields them under order ord
RangeOver(S, ord) == SelectSeq(ord, LAMBDA p : p \in S)

\* flattened without its sort.Strings
flattenedUnsorted(m, ord) ==
    [tag \in DOMAIN m |-> [k \in DOMAIN m[tag] |-> RangeOver(m[tag][k], ord)]]

\* flattened, lines 106-118, with ord the order the ranges over the sets take
flattened(m, ord) ==
    [tag \in DOMAIN m |->
        [k \in DOMAIN m[tag] |-> SortStrings(RangeOver(m[tag][k], ord))]]

HeaderComment == "This file is autogenerated by kazel. DO NOT EDIT."
BoilerplateText == <<"#", "\n">>
NoData == [boilerplate |-> <<>>, body |-> <<>>]
NoFile == [exists |-> FALSE, data |-> NoData]
NoCall == [boilerplate |-> "none", stat |-> "none", writeFile |-> FALSE,
           exists |-> FALSE, dryRun |-> FALSE, wrote |-> FALSE, out |-> NoData]

\* lines 142-154: the statements of the build file
buildFile(flat) ==
    <<HeaderComment,
      <<"go_prefix", cfg.GoPrefix>>,
      <<"kazel_configured_tags", cfg.K8sCodegenTags>>,
      <<"tags_values_pkgs", flat>>>>

\* os.IsNotExist
IsNotExist(statErr) == statErr = "notexist"

\* line 165, taking every error of os.Stat for fatal
statFatalAlways(statErr) == statErr # "nil"

\* line 165: the error of os.Stat is fatal
statFatal(statErr) == statErr # "nil" /\ ~IsNotExist(statErr)

\* line 168, with the negation lost
fileExistsInverted(statErr) == IsNotExist(statErr)

\* line 168: the exists argument of writeFile
fileExists(statErr) == ~IsNotExist(statErr)

\* lines 157-162, going on without the boilerplate when it cannot be read
boilerplateFatalNever(readOk) == FALSE

\* lines 157-162: reading the boilerplate file failed
boilerplateFatal(readOk) == cfg.K8sCodegenBoilerplateFile # <<>> /\ ~readOk

\* writeFile(path, f, boilerplate, exists, dryRun): what it returns and the
\* target after it
writeFile(f, boilerplate, exists, dry) ==
    LET out == [boilerplate |-> boilerplate, body |-> f] IN
    IF exists /\ ~target.exists
    THEN [changed |-> FALSE, err |-> Failure("read", cfg.K8sCodegenBzlFile),
          wrote |-> FALSE, target |-> target, out |-> out]
    ELSE IF exists /\ target.data = out
    THEN [changed |-> FALSE, err |-> NoErr, wrote |-> FALSE, target |-> target,
          out |-> out]
    ELSE IF dry
    THEN [changed |-> TRUE, err |-> NoErr, wrote |-> FALSE, target |-> target,
          out |-> out]
    ELSE [changed |-> TRUE, err |-> NoErr, wrote |-> TRUE,
          target |-> [exists |-> TRUE, data |-> out], out |-> out]

(***************************************************************************)
(* walkGenerated                                                           *)
(***************************************************************************)
\* the record of a finished invocation
Finished(dry, res, c) ==
    [dryRun |-> dry, changed |-> res.changed, failed |-> res.err # NoErr,
     wrote |-> c.wrote, generated |-> c.writeFile]

\* lines 128-137: an invocation begins
Start ==
    /\ pc \in {"idle", "done"}
    /\ runsLeft > 0
    /\ runsLeft' = runsLeft - 1
    /\ \E dry \in BOOLEAN : dryRun' = dry
    /\ tagsValuesPkgs' = EmptyMap
    /\ walkErr' = NoErr
    /\ visited' = <<>> /\ reads' = <<>> /\ enumerated' = {} /\ failures' = <<>>
    /\ found' = [nil |-> TRUE, idx |-> EmptyMap, err |-> NoErr]
    /\ call' = NoCall
    /\ targetBefore' = target
    /\ IF cfg.K8sCodegenBzlFile = <<>>
       THEN /\ result' = [changed |-> FALSE, err |-> NoErr]
            /\ history' = Append(history, Finished(dryRun', result', NoCall))
            /\ requestedTags' = {}
            /\ stack' = <<>>
            /\ pc' = "done"
       ELSE /\ requestedTags' =
                   {cfg.K8sCodegenTags[i] : i \in DOMAIN cfg.K8sCodegenTags}
            /\ stack' = <<<<Root>>>>
            /\ pc' = "walk"
            /\ UNCHANGED <<result, history>>
    /\ UNCHANGED <<fs, target, cfg, skippedK8sCodegenPaths, readDirFirst,
                   xb, xreq, xtags>>

\* lines 61-96: filepath.Walk reaches its next entry
Visit ==
    /\ pc = "walk"
    /\ stack # <<>>
    /\ \E lstatOk, openOk \in BOOLEAN :
         LET path == Head(Head(stack))
             step == walkEntry(path, lstatOk, openOk)
         IN /\ visited' = visited \o step.calls
            /\ reads' = IF step.fn.read THEN Append(reads, path) ELSE reads
            /\ enumerated' = enumerated \cup step.listed
            /\ failures' = failures \o step.failed
            /\ tagsValuesPkgs' = step.fn.idx
            /\ walkErr' = IF step.fn.ret \in {NoErr, SkipDir} THEN NoErr
                          ELSE step.fn.ret
            /\ stack' = afterEntry(path, step)
    /\ UNCHANGED <<fs, target, cfg, skippedK8sCodegenPaths, readDirFirst, dryRun,
                   pc, requestedTags, found, call, targetBefore, runsLeft,
                   result, history, xb, xreq, xtags>>

\* lines 98-102 and 137-140: filepath.Walk returned
WalkReturn ==
    /\ pc = "walk"
    /\ stack = <<>>
    /\ IF walkErr # NoErr
       THEN /\ found' = [nil |-> TRUE, idx |-> EmptyMap, err |-> walkErr]
            /\ result' = [changed |-> FALSE, err |-> walkErr]
            /\ history' = Append(history, Finished(dryRun, result', NoCall))
            /\ pc' = "done"
       ELSE /\ found' = [nil |-> FALSE, idx |-> tagsValuesPkgs, err |-> NoErr]
            /\ pc' = "generate"
            /\ UNCHANGED <<result, history>>
    /\ UNCHANGED <<fs, target, cfg, skippedK8sCodegenPaths, readDirFirst, dryRun,
                   stack, requestedTags, tagsValuesPkgs, walkErr, visited, reads,
                   enumerated, failures, call, targetBefore, runsLeft, xb, xreq, xtags>>

\* lines 142-168: the file is built, compared and written
Generate ==
    /\ pc = "generate"
    /\ \E readOk, statOk \in BOOLEAN, ord \in Orders(PkgsOf(found.idx)) :
         LET f == buildFile(flattened(found.idx, ord))
             configured == cfg.K8sCodegenBoilerplateFile # <<>>
             boilerplate == IF configured /\ readOk THEN BoilerplateText ELSE <<>>
             statErr == IF ~statOk THEN "other"
                        ELSE IF target.exists THEN "nil" ELSE "notexist"
             w == writeFile(f, boilerplate, fileExists(statErr), dryRun)
             bp == IF ~configured THEN "none" ELSE IF readOk THEN "ok" ELSE "failed"
         IN IF boilerplateFatal(readOk)
            THEN /\ result' = [changed |-> FALSE,
                               err |-> Failure("read", cfg.K8sCodegenBoilerplateFile)]
                 /\ call' = [NoCall EXCEPT !.boilerplate = bp]
                 /\ target' = target
            ELSE IF statFatal(statErr)
            THEN /\ result' = [changed |-> FALSE,
                               err |-> Failure("stat", cfg.K8sCodegenBzlFile)]
                 /\ call' = [NoCall EXCEPT !.boilerplate = bp, !.stat = statErr]
                 /\ target' = target
            ELSE /\ result' = [changed |-> w.changed, err |-> w.err]
                 /\ call' = [boilerplate |-> bp, stat |-> statErr,
                             writeFile |-> TRUE, exists |-> fileExists(statErr),
                             dryRun |-> dryRun, wrote |-> w.wrote, out |-> w.out]
                 /\ target' = w.target
    /\ history' = Append(history, Finished(dryRun, result', call'))
    /\ pc' = "done"
    /\ UNCHANGED <<fs, cfg, skippedK8sCodegenPaths, readDirFirst, dryRun, stack,
                   requestedTags, tagsValuesPkgs, walkErr, visited, reads,
                   enumerated, failures, found, targetBefore, runsLeft, xb, xreq, xtags>>

Next == Start \/ Visit \/ WalkReturn \/ Generate

(***************************************************************************)
(* Inputs                                                                  *)
(***************************************************************************)
TagA == <<"a">>
TagB == <<"b">>
DirA == <<"a">>
DirAB == <<"a", "/", "b">>
DirAdashB == <<"a", "-", "b">>
XGo == <<"x", ".", "g", "o">>
YGo == <<"y", ".", "g", "o">>
CGo == <<"c", ".", "g", "o">>
XTestGo == <<"x">> \o TestSuffix
PlainGo == <<"g", "o">>

Annotation(tag, values) ==
    Slashes \o <<" ">> \o K8sPrefix \o tag \o <<"=">> \o values \o <<"\n">>

\* the files a tree may hold, each with its content
FileContent ==
    [p \in {Join(DirA, XGo), Join(DirA, YGo), Join(DirA, XTestGo),
            Join(DirAB, XGo), Join(DirAB, PlainGo), Join(DirAdashB, XGo), CGo} |->
        CASE p = Join(DirA, XGo) -> Annotation(TagA, <<"x", ",", "y">>)
          [] p = Join(DirA, YGo) ->
                 Annotation(TagA, <<"y">>) \o Annotation(TagB, <<"z">>)
          [] p = Join(DirA, XTestGo) -> Annotation(TagA, <<"t">>)
          [] p = Join(DirAB, XGo) -> Annotation(TagA, <<"x">>)
          [] p = Join(DirAB, PlainGo) -> Annotation(TagA, <<"u">>)
          [] p = Join(DirAdashB, XGo) -> Annotation(TagA, <<"x">>)
          [] p = CGo -> Annotation(TagB, <<"z">>)]

\* the directories above path, Root among them
RECURSIVE Ancestors(_)
Ancestors(path) ==
    IF path = Root THEN {} ELSE {Dir(path)} \cup Ancestors(Dir(path))

\* the tree with the files of F, the directories they need and, with cDir, a
\* directory named c.go
Tree(F, cDir) ==
    [dirs |-> {Root} \cup UNION {Ancestors(p) : p \in F}
                     \cup (IF cDir THEN {CGo} ELSE {}),
     files |-> F,
     content |-> [p \in F |-> FileContent[p]]]

Trees ==
    {Tree(F, FALSE) : F \in SUBSET DOMAIN FileContent}
        \cup {Tree(F, TRUE) : F \in SUBSET (DOMAIN FileContent \ {CGo})}

SkipPatterns ==
    {[anchored |-> TRUE, lit |-> DirA], [anchored |-> FALSE, lit |-> DirA],
     [anchored |-> TRUE, lit |-> DirAB], [anchored |-> TRUE, lit |-> Root]}

\* the sequences over S of length at most n
RECURSIVE SeqsUpTo(_, _)
SeqsUpTo(S, n) ==
    IF n = 0 THEN {<<>>}
    ELSE LET shorter == SeqsUpTo(S, n - 1) IN
         shorter \cup {Append(q, x) : q \in shorter, x \in S}

BzlFile == <<"g", ".", "b", "z", "l">>
BoilerplateFile == <<"b", ".", "t", "x", "t">>
GoPrefix == <<"k", "8", "s">>

Config(bzl, boilerplate, tags) ==
    [GoPrefix |-> GoPrefix, K8sCodegenBzlFile |-> bzl,
     K8sCodegenBoilerplateFile |-> boilerplate, K8sCodegenTags |-> tags]

StaleFile == [exists |-> TRUE, data |-> NoData]

Idle ==
    /\ pc = "idle"
    /\ dryRun = FALSE /\ stack = <<>> /\ requestedTags = {}
    /\ tagsValuesPkgs = EmptyMap /\ walkErr = NoErr
    /\ visited = <<>> /\ reads = <<>> /\ enumerated = {} /\ failures = <<>>
    /\ found = [nil |-> TRUE, idx |-> EmptyMap, err |-> NoErr]
    /\ call = NoCall /\ targetBefore = target
    /\ result = [changed |-> FALSE, err |-> NoErr] /\ history = <<>>
    /\ xb = <<>> /\ xreq = {} /\ xtags = EmptyMap

\* one invocation, over every tree and skip list
Init ==
    /\ fs \in Trees
    /\ skippedK8sCodegenPaths \in SeqsUpTo(SkipPatterns, MaxSkip)
    /\ readDirFirst \in BOOLEAN
    /\ cfg \in {Config(BzlFile, <<>>, tags) : tags \in {<<TagA, TagB>>, <<TagB>>}}
    /\ target = NoFile
    /\ runsLeft = 1
    /\ Idle

Spec == Init /\ [][Next]_vars

\* repeated invocations, over every configuration and state of the target
GenInit ==
    /\ fs \in {Tree({Join(DirA, XGo), Join(DirA, YGo), Join(DirAdashB, XGo)}, FALSE),
               Tree({Join(DirAB, XGo), CGo}, FALSE), Tree({}, FALSE)}
    /\ skippedK8sCodegenPaths \in {<<>>, <<[anchored |-> TRUE, lit |-> DirA]>>}
    /\ readDirFirst \in BOOLEAN
    /\ cfg \in {Config(bzl, bp, tags) : bzl \in {<<>>, BzlFile},
                                        bp \in {<<>>, BoilerplateFile},
                                        tags \in {<<TagA, TagB>>, <<>>}}
    /\ target \in {NoFile, StaleFile}
    /\ runsLeft = MaxRuns
    /\ Idle

SpecGen == GenInit /\ [][Next]_vars

\* extractTags on every text of a few pieces
Pieces ==
    { Annotation(TagA, <<"x", ",", "y">>),
      Slashes \o K8sPrefix \o <<"b", "=", "z", " ", "\n", "\n">>,
      Slashes \o <<" ">> \o K8sPrefix \o <<"a", "=", "y">>,
      Slashes \o <<"\n">> \o K8sPrefix \o <<"c", "=", ",", "x", "\n">>,
      Slashes \o <<" ">> \o K8sPrefix \o <<"=", "x", "\n">>,
      <<"\n">>,
      <<"/">>,
      <<" ", "x", "\n">> }

RECURSIVE Texts(_)
Texts(n) ==
    IF n = 0 THEN {<<>>}
    ELSE LET shorter == Texts(n - 1) IN
         shorter \cup {t \o p : t \in shorter, p \in Pieces}

ExtractInit ==
    /\ xb \in Texts(MaxPieces)
    /\ xreq \in SUBSET {TagA, TagB, <<"c">>}
    /\ xtags = EmptyMap
    /\ pc = "extract"
    /\ fs = Tree({}, FALSE) /\ target = NoFile
    /\ cfg = Config(<<>>, <<>>, <<>>) /\ skippedK8sCodegenPaths = <<>>
    /\ readDirFirst = TRUE /\ dryRun = FALSE /\ stack = <<>>
    /\ requestedTags = {} /\ tagsValuesPkgs = EmptyMap /\ walkErr = NoErr
    /\ visited = <<>> /\ reads = <<>> /\ enumerated = {} /\ failures = <<>>
    /\ found = [nil |-> TRUE, idx |-> EmptyMap, err |-> NoErr]
    /\ call = NoCall /\ targetBefore = target /\ runsLeft = 0
    /\ result = [changed |-> FALSE, err |-> NoErr] /\ history = <<>>

\* extractTags is applied to the text
Extract ==
    /\ pc = "extract"
    /\ xtags' = extractTags(xb, xreq)
    /\ pc' = "extracted"
    /\ UNCHANGED <<walkVars, xb, xreq>>

ExtractNext == Extract

SpecExtract == ExtractInit /\ [][ExtractNext]_vars

(***************************************************************************)
(* Properties                                                              *)
(***************************************************************************)
\* some skipped codegen path matches the directory d
Matched(d) ==
    \E i \in DOMAIN skippedK8sCodegenPaths :
        IF skippedK8sCodegenPaths[i].anchored
        THEN d = skippedK8sCodegenPaths[i].lit
        ELSE Contains(d, skippedK8sCodegenPaths[i].lit)

\* the elements of a sequence
Range(q) == {q[i] : i \in DOMAIN q}

\* the sources of the tree that carry value k of tag
Carriers(tag, k) ==
    {p \in fs.files :
        LET tags == extractTags(fs.content[p], requestedTags) IN
        tag \in DOMAIN tags /\ k \in Range(tags[tag])}

\* C1: a directory whose path matches a skip pattern contributes no package
\* to the index, and no file beneath it, at any depth, is read.
C1_SkippedSubtreeUnread ==
    /\ \A p \in Range(reads) : \A d \in Ancestors(p) : ~Matched(d)
    /\ \A idx \in {tagsValuesPkgs, found.idx} :
         \A pkg \in PkgsOf(idx) :
            ~Matched(pkg) /\ \A d \in Ancestors(pkg) : ~Matched(d)

\* a walk that ended well and read a file, in a tree where a tagged source
\* lies two levels or more beneath a skipped directory
C1_Witness ==
    /\ pc = "generate"
    /\ reads # <<>>
    /\ \E p \in fs.files :
         /\ isSource(p)
         /\ extractTags(fs.content[p], requestedTags) # EmptyMap
         /\ \E d \in Ancestors(p) \ {Dir(p)} : Matched(d)

\* the flattened index of the file this invocation generated
FlatOf(c) == c.out.body[4][2]

\* C5: each flattened leaf is sorted in byte order without duplicates and
\* holds exactly the directories of the files read that carry the tag and
\* value, whatever the order of the visits and of the ranges; a directory
\* with several such files appears once.
C5_LeavesSortedAndUnique ==
    (pc = "done" /\ call.writeFile) =>
        LET flat == FlatOf(call)
            read == Range(reads) \cap fs.files
        IN /\ \A tag \in DOMAIN flat : \A k \in DOMAIN flat[tag] :
                LET leaf == flat[tag][k] IN
                /\ \A i \in 1..(Len(leaf) - 1) : StrLess(leaf[i], leaf[i + 1])
                /\ Range(leaf) = {Dir(p) : p \in Carriers(tag, k) \cap read}
                /\ leaf # <<>>
           /\ \A p \in read :
                LET tags == extractTags(fs.content[p], requestedTags) IN
                \A tag \in DOMAIN tags : \A k \in Range(tags[tag]) :
                    tag \in DOMAIN flat /\ k \in DOMAIN flat[tag]

\* a generated file with a leaf of three packages, visited in another order
\* than the sorted one, and a directory with two files carrying one pair
C5_Witness ==
    /\ pc = "done" /\ call.writeFile
    /\ \E tag \in DOMAIN FlatOf(call) : \E k \in DOMAIN FlatOf(call)[tag] :
         /\ Len(FlatOf(call)[tag][k]) >= 3
         /\ \E i, j \in DOMAIN reads :
              /\ i < j
              /\ {reads[i], reads[j]} \subseteq Carriers(tag, k)
              /\ StrLess(Dir(reads[j]), Dir(reads[i]))
    /\ \E tag \in DOMAIN FlatOf(call) : \E k \in DOMAIN FlatOf(call)[tag] :
         \E p, q \in Carriers(tag, k) \cap Range(reads) : p # q /\ Dir(p) = Dir(q)

\* C6: a failure of lstat, of the listing of a directory or of the read of a
\* source aborts the walk there: nothing is visited or read after it, the
\* error is returned and no index is.
C6_FailureAbortsWalk ==
    failures # <<>> =>
        /\ Len(failures) = 1
        /\ walkErr = failures[1]
        /\ stack = <<>>
        /\ visited[Len(visited)] = failures[1].path
        /\ IF failures[1].op = "read"
           THEN reads[Len(reads)] = failures[1].path
           ELSE failures[1].path \notin Range(reads)
        /\ pc \in {"walk", "done"}
        /\ pc = "done" =>
              /\ found.nil /\ found.idx = EmptyMap /\ found.err = failures[1]
              /\ result = [changed |-> FALSE, err |-> failures[1]]
              /\ ~call.writeFile

\* a walk that failed after it had gathered entries and before it reached
\* a source it would have read
C6_Witness ==
    /\ pc = "done"
    /\ failures # <<>>
    /\ tagsValuesPkgs # EmptyMap
    /\ found.nil
    /\ \E p \in fs.files \ Range(visited) :
         isSource(p) /\ \A d \in Ancestors(p) : ~Matched(d)

\* C9: a directory (below the root) whose path matches a skip pattern is
\* never entered: its entries are neither listed nor handed to the walk
\* function, and a failure to list it does not abort the walk.
C9_SkippedDirNeverEntered ==
    /\ \A d \in enumerated \ {Root} : ~Matched(d)
    /\ \A p \in Range(visited) \ {Root} : Dir(p) = Root \/ ~Matched(Dir(p))
    /\ (walkErr.op = "readdir" /\ walkErr.path # Root) => ~Matched(walkErr.path)

\* C10: only files named *.go and not *_test.go are read, and a directory,
\* whatever its name, is not handed to the read and does not fail the walk.
C10_OnlySourceFilesRead ==
    /\ \A p \in Range(reads) :
         /\ p \in fs.files
         /\ HasSuffix(p, GoSuffix) /\ ~HasSuffix(p, TestSuffix)
    /\ walkErr.op = "read" => walkErr.path \in fs.files

\* C2: after an invocation that was no dry run and did not fail, the next
\* invocation reports changed = false and writes nothing.
C2_SecondRunUnchanged ==
    \A i \in 1..(Len(history) - 1) :
        (~history[i].dryRun /\ ~history[i].failed) =>
            ~history[i + 1].changed /\ ~history[i + 1].wrote

\* a file written by one invocation, with a leaf of two packages, and found
\* unchanged by the next, which got as far as the comparison
C2_Witness ==
    /\ Len(history) = 2
    /\ ~history[1].dryRun /\ history[1].wrote
    /\ history[2].generated /\ ~history[2].failed /\ ~history[2].changed
    /\ \E tag \in DOMAIN FlatOf(call) : \E k \in DOMAIN FlatOf(call)[tag] :
         Len(FlatOf(call)[tag][k]) >= 2

\* C3: a dry run leaves the target as it was, and when it gets to the
\* comparison it reports changed exactly when the target is absent or
\* differs from the generated content.
C3_DryRunWritesNothing ==
    (dryRun /\ pc # "idle") =>
        /\ target = targetBefore
        /\ (pc = "done" /\ call.writeFile /\ result.err = NoErr) =>
              (result.changed <=> (~target.exists \/ target.data # call.out))

\* a dry run that found the target identical to what it generated
C3_Witness ==
    /\ dryRun /\ pc = "done" /\ call.writeFile
    /\ target.exists /\ target.data = call.out
    /\ ~result.changed
    /\ FlatOf(call) # EmptyMap

\* C7: a target that is not there is no error and goes to the write step
\* with exists = false, a target that is there goes with exists = true, and
\* any other failure of the existence check is returned.
C7_NotFoundIsNoError ==
    pc = "done" =>
        /\ call.stat = "notexist" =>
              result.err = NoErr /\ call.writeFile /\ ~call.exists
        /\ call.stat = "nil" => call.writeFile /\ call.exists
        /\ call.stat = "other" =>
              /\ result = [changed |-> FALSE,
                           err |-> Failure("stat", cfg.K8sCodegenBzlFile)]
              /\ ~call.writeFile

\* a first generation: the target was not there and was written
C7_Witness ==
    /\ pc = "done"
    /\ call.stat = "notexist"
    /\ ~targetBefore.exists /\ call.wrote /\ target.exists

\* C8: a failed walk, an unreadable configured boilerplate file and a failed
\* existence check each end the invocation with that error and changed =
\* false, before the write step and with the target as it was.
C8_FatalErrorsPrecedeWrite ==
    pc = "done" =>
        /\ failures # <<>> => result.err = failures[1]
        /\ call.boilerplate = "failed" =>
              result.err = Failure("read", cfg.K8sCodegenBoilerplateFile)
        /\ (call.boilerplate # "failed" /\ call.stat = "other") =>
              result.err = Failure("stat", cfg.K8sCodegenBzlFile)
        /\ result.err # NoErr =>
              ~result.changed /\ ~call.writeFile /\ target = targetBefore

\* an invocation that ended on an unreadable boilerplate file, after a walk
\* that had found tags and with a target that is there
C8_Witness ==
    /\ pc = "done"
    /\ call.boilerplate = "failed"
    /\ result.err # NoErr
    /\ found.idx # EmptyMap
    /\ target.exists

\* the matches of ms that carry tag t, in order
MatchesOf(ms, t) == SelectSeq(ms, LAMBDA m : m.tag = t)

\* the values of the matches ms, split at the commas, one after the other
RECURSIVE ValuesOf(_)
ValuesOf(ms) ==
    IF ms = <<>> THEN <<>> ELSE Split(Head(ms).values) \o ValuesOf(Tail(ms))

\* the pieces joined by commas
RECURSIVE JoinComma(_)
JoinComma(pieces) ==
    IF Len(pieces) = 1 THEN pieces[1]
    ELSE pieces[1] \o <<",">> \o JoinComma(Tail(pieces))

\* C4: the keys of the result are the requested tags that some match
\* carries, each with the comma-split values of its matches in the order of
\* the text; other tags give nothing, and no match gives the empty mapping.
C4_ExtractTagsResult ==
    pc = "extracted" =>
        LET ms == FindAllSubmatch(xb) IN
        /\ DOMAIN xtags = {ms[i].tag : i \in DOMAIN ms} \cap xreq
        /\ \A t \in DOMAIN xtags : xtags[t] = ValuesOf(MatchesOf(ms, t))
        /\ \A i \in DOMAIN ms :
             /\ JoinComma(Split(ms[i].values)) = ms[i].values
             /\ \A j \in DOMAIN Split(ms[i].values) :
                  ~Contains(Split(ms[i].values)[j], <<",">>)
             /\ i > 1 => ms[i - 1].end <= ms[i].start
        /\ ms = <<>> => xtags = EmptyMap

\* a text with two matches of one requested tag, one of them with several
\* values, and a match of a tag that was not requested
C4_Witness ==
    /\ pc = "extracted"
    /\ \E t \in DOMAIN xtags :
         /\ Len(MatchesOf(FindAllSubmatch(xb), t)) >= 2
         /\ Len(xtags[t]) >= 3
    /\ \E i \in DOMAIN FindAllSubmatch(xb) : FindAllSubmatch(xb)[i].tag \notin xreq

====
